---------------------------- MODULE Spec2Model ----------------------------
(***************************************************************************)
(* NanoClaw (src/index.ts): a Telegram-to-Claude bridge with a bounded     *)
(* conversation history kept in history.jsonl.                             *)
(*                                                                         *)
(* Specifications: SpecHist (addToHistory alone), Spec (the process and its *)
(* message handler, one update at a time), SpecReliable (the same on a     *)
(* disk that works), SpecOverlap (handlers under way at once), SpecText    *)
(* and SpecRound (pure functions on drawn inputs).                         *)
(*                                                                         *)
(* Strings are sequences of one-character strings, so that startsWith,     *)
(* template concatenation and JSON escaping are computed, not assumed.     *)
(* The history file is its text at line granularity: a sequence of tokens, *)
(* each a serialized record, a newline, or an unparsable fragment.         *)
(***************************************************************************)
EXTENDS Integers, Sequences, FiniteSets, TLC

(* ------------------------------ bounds -------------------------------- *)
\* SpecHist: number of addToHistory calls of one run (beyond MAX_HISTORY).
MaxAppends == 103
\* SpecHist: longest period of the driver's call script.
MaxPeriod == 2
\* Spec: inbound messages the transport delivers in one run.
MaxMessages == 2
\* Most content blocks in one model response.
MaxBlocks == 3
\* SpecRound: most records of the history handed to saveHistory.
MaxRecords == 2

(* ------------------------------ config -------------------------------- *)
ASSISTANT_NAME == <<"J", "A", "R", "V", "I", "S">>
MAX_HISTORY == 100

(* ------------------------------ strings ------------------------------- *)
NL == "\n"
QUOTE == "\""
BACKSLASH == "\\"

Min(a, b) == IF a < b THEN a ELSE b
Max(a, b) == IF a > b THEN a ELSE b

RECURSIVE Concat(_)
\* Array.prototype.join('') of a sequence of strings.
Concat(ss) == IF ss = <<>> THEN <<>> ELSE Head(ss) \o Concat(Tail(ss))

\* An escape that leaves the newline as it is.
EscapeChar_rawNewline(c) ==
    IF c = QUOTE THEN <<BACKSLASH, QUOTE>>
    ELSE IF c = BACKSLASH THEN <<BACKSLASH, BACKSLASH>>
    ELSE <<c>>

\* The JSON escape of one character inside a string literal.
EscapeChar(c) ==
    IF c = NL THEN <<BACKSLASH, "n">>
    ELSE IF c = QUOTE THEN <<BACKSLASH, QUOTE>>
    ELSE IF c = BACKSLASH THEN <<BACKSLASH, BACKSLASH>>
    ELSE <<c>>

\* The body of the JSON string literal JSON.stringify writes for string s.
Escape(s) == Concat([i \in 1..Len(s) |-> EscapeChar(s[i])])

RECURSIVE Unescape(_)
\* The string JSON.parse reads from the body e of a JSON string literal.
Unescape(e) ==
    IF e = <<>> THEN <<>>
    ELSE IF Head(e) = BACKSLASH /\ Len(e) >= 2
         THEN <<(IF e[2] = "n" THEN NL ELSE e[2])>> \o Unescape(SubSeq(e, 3, Len(e)))
         ELSE <<Head(e)>> \o Unescape(Tail(e))

RECURSIVE Decimal(_)
\* The decimal digits of a natural number.
Decimal(n) ==
    LET digits == <<"0", "1", "2", "3", "4", "5", "6", "7", "8", "9">> IN
    IF n < 10 THEN <<digits[n + 1]>>
    ELSE Decimal(n \div 10) \o <<digits[(n % 10) + 1]>>

\* new Date().toISOString() at clock reading now: the text of the instant,
\* here its count followed by the zone letter.
toISOString(now) == Decimal(now) \o <<"Z">>

(* --------------------------- history file ----------------------------- *)
Roles == {"user", "assistant"}

\* The file when fs.existsSync(HISTORY_FILE) is false: no text at all.
NoFile == <<[t |-> "ENOENT"]>>
\* A newline character of the file.
NewLine == [t |-> "nl"]
\* A stretch of the file that is not a complete JSON text.
Fragment == [t |-> "fragment"]

\* JSON.stringify(m): one JSON text, its string values escaped.
JSONstringify(m) ==
    [t |-> "json", role |-> m.role, content |-> Escape(m.content),
     timestamp |-> Escape(m.timestamp)]

\* The characters of one JSON text as they lie in the file: a raw newline
\* inside it cuts it into two stretches, neither a complete JSON text.
Written(j) ==
    IF \/ \E i \in 1..Len(j.content) : j.content[i] = NL
       \/ \E i \in 1..Len(j.timestamp) : j.timestamp[i] = NL
    THEN <<Fragment, NewLine, Fragment>>
    ELSE <<j>>

RECURSIVE Join(_)
\* lines.join('\n'), computed by halves.
Join(lines) ==
    IF lines = <<>> THEN <<>>
    ELSE IF Len(lines) = 1 THEN Written(lines[1])
    ELSE LET h == Len(lines) \div 2 IN
         Join(SubSeq(lines, 1, h)) \o <<NewLine>>
             \o Join(SubSeq(lines, h + 1, Len(lines)))

RECURSIVE TrimStart(_)
TrimStart(txt) ==
    IF txt # <<>> /\ Head(txt) = NewLine THEN TrimStart(Tail(txt)) ELSE txt

RECURSIVE TrimEnd(_)
TrimEnd(txt) ==
    IF txt # <<>> /\ txt[Len(txt)] = NewLine
    THEN TrimEnd(SubSeq(txt, 1, Len(txt) - 1)) ELSE txt

\* String.prototype.trim(): whitespace off both ends of the text.
Trim(txt) == TrimEnd(TrimStart(txt))

RECURSIVE Split(_)
\* String.prototype.split('\n'): the pieces of txt between its newlines,
\* computed by halves (the last piece of the left half and the first of the
\* right half are one piece).
Split(txt) ==
    IF txt = <<>> THEN << <<>> >>
    ELSE IF Len(txt) = 1
         THEN (IF txt[1] = NewLine THEN << <<>>, <<>> >> ELSE <<txt>>)
    ELSE LET h == Len(txt) \div 2
             l == Split(SubSeq(txt, 1, h))
             r == Split(SubSeq(txt, h + 1, Len(txt)))
         IN  SubSeq(l, 1, Len(l) - 1) \o <<l[Len(l)] \o r[1]>> \o Tail(r)

\* lines.filter(Boolean): the empty string is falsy.
FilterBoolean(lines) == SelectSeq(lines, LAMBDA l : l # <<>>)

\* JSON.parse succeeds on exactly one complete JSON text.
Parses(line) == Len(line) = 1 /\ line[1].t = "json"

\* JSON.parse(line) for a line that parses.
JSONparse(line) ==
    [role |-> line[1].role, content |-> Unescape(line[1].content),
     timestamp |-> Unescape(line[1].timestamp)]

\* The lines loadHistory maps JSON.parse over.
Lines(f) == FilterBoolean(Split(Trim(f)))

\* loadHistory skipping the lines that do not parse instead of throwing.
loadHistory_skipping(f, io) ==
    IF f = NoFile THEN [threw |-> FALSE, value |-> <<>>]
    ELSE IF io = "EIO" THEN [threw |-> TRUE, value |-> <<>>]
    ELSE LET lines == SelectSeq(Lines(f), Parses) IN
         [threw |-> FALSE,
          value |-> [i \in 1..Len(lines) |-> JSONparse(lines[i])]]

\* loadHistory(): [threw, value]. io = "EIO" is readFileSync failing.
loadHistory(f, io) ==
    IF f = NoFile THEN [threw |-> FALSE, value |-> <<>>]
    ELSE IF io = "EIO" THEN [threw |-> TRUE, value |-> <<>>]
    ELSE LET lines == Lines(f) IN
         IF \E i \in 1..Len(lines) : ~Parses(lines[i])
         THEN [threw |-> TRUE, value |-> <<>>]
         ELSE [threw |-> FALSE,
               value |-> [i \in 1..Len(lines) |-> JSONparse(lines[i])]]

\* saveHistory(history): the text writeFileSync leaves in the file.
saveHistory(history) ==
    Join([i \in 1..Len(history) |-> JSONstringify(history[i])])

\* Trimmed with the splice one short: MAX_HISTORY + 1 records are kept.
Trimmed_oneShort(history) ==
    IF Len(history) > MAX_HISTORY + 1
    THEN SubSeq(history, Len(history) - MAX_HISTORY, Len(history))
    ELSE history

\* Trimmed cutting the wrong end: history.splice(MAX_HISTORY) drops the newest.
Trimmed_dropsNewest(history) ==
    IF Len(history) > MAX_HISTORY
    THEN SubSeq(history, 1, MAX_HISTORY)
    ELSE history

\* history.splice(0, history.length - MAX_HISTORY) when over MAX_HISTORY.
Trimmed(history) ==
    IF Len(history) > MAX_HISTORY
    THEN SubSeq(history, Len(history) - MAX_HISTORY + 1, Len(history))
    ELSE history

\* addToHistory(role, content) at clock reading now: [threw, file].
\* io = "EIO" is the read failing, io = "EACCES" the write failing with the
\* file left as it was.
addToHistory(f, role, content, now, io) ==
    LET loaded == loadHistory(f, io)
        history == Append(loaded.value,
                          [role |-> role, content |-> content,
                           timestamp |-> toISOString(now)])
    IN  IF io = "EACCES" \/ loaded.threw
        THEN [threw |-> TRUE, file |-> f]
        ELSE [threw |-> FALSE, file |-> saveHistory(Trimmed(history))]

(* ----------------------------- messages ------------------------------ *)
\* `${ASSISTANT_NAME}: ${body}`
Labelled(body) == ASSISTANT_NAME \o <<":", " ">> \o body

\* The apology sent bare, without the assistant-name label.
ApologyReply_unlabelled ==
    <<"S", "o", "r", "r", "y", ",", " ", "s", "o", "m", "e", "t",
      "h", "i", "n", "g", " ", "w", "e", "n", "t", " ", "w", "r",
      "o", "n", "g", ".">>

\* The reply of the catch block.
ApologyReply ==
    Labelled(<<"S", "o", "r", "r", "y", ",", " ", "s", "o", "m", "e", "t",
               "h", "i", "n", "g", " ", "w", "e", "n", "t", " ", "w", "r",
               "o", "n", "g", ".">>)

\* text.startsWith('/')
StartsWithSlash(txt) == Len(txt) >= 1 /\ txt[1] = "/"

\* The command filter without its exception: /start is skipped as well.
Skipped_everyCommand(txt) == StartsWithSlash(txt)

\* The command filter: text.startsWith('/') && text !== '/start'.
Skipped(txt) == StartsWithSlash(txt) /\ txt # <<"/", "s", "t", "a", "r", "t">>

\* Context with the slice one long: history.slice(-21).
Context_oneLong(history) ==
    LET from == Max(1, Len(history) - 21 + 1) IN
    [i \in 1..(Len(history) - from + 1) |->
        [role |-> history[from + i - 1].role,
         content |-> history[from + i - 1].content]]

\* history.slice(-20).map(m => ({ role: m.role, content: m.content }))
Context(history) ==
    LET from == Max(1, Len(history) - 20 + 1) IN
    [i \in 1..(Len(history) - from + 1) |->
        [role |-> history[from + i - 1].role,
         content |-> history[from + i - 1].content]]

\* The messages getResponse hands to anthropic.messages.create.
Messages(history, userMessage) ==
    Append(Context(history), [role |-> "user", content |-> userMessage])

\* ExtractText looking at the first block only: response.content[0].
ExtractText_firstBlockOnly(blocks) ==
    IF blocks # <<>> /\ blocks[1].type = "text"
    THEN blocks[1].text
    ELSE <<"S", "o", "r", "r", "y", ",", " ", "I", " ", "c", "o", "u",
           "l", "d", " ", "n", "o", "t", " ", "g", "e", "n", "e", "r",
           "a", "t", "e", " ", "a", " ", "r", "e", "s", "p", "o", "n",
           "s", "e", ".">>

\* response.content.find(b => b.type === 'text'), then
\* block && 'text' in block ? block.text : 'Sorry, I could not generate a response.'
ExtractText(blocks) ==
    LET found == {i \in 1..Len(blocks) : blocks[i].type = "text"} IN
    IF found # {} /\ "text" \in DOMAIN blocks[CHOOSE i \in found : \A j \in found : i <= j]
    THEN blocks[CHOOSE i \in found : \A j \in found : i <= j].text
    ELSE <<"S", "o", "r", "r", "y", ",", " ", "I", " ", "c", "o", "u",
           "l", "d", " ", "n", "o", "t", " ", "g", "e", "n", "e", "r",
           "a", "t", "e", " ", "a", " ", "r", "e", "s", "p", "o", "n",
           "s", "e", ".">>

(* ------------------------------- state -------------------------------- *)
\* Invocations of the message:text handler that can be under way.
Handlers == {1, 2}

VARIABLES
    file,        \* history.jsonl: NoFile or its text
    clock,       \* the wall clock new Date() reads
    appended,    \* every record an addToHistory call has saved, in call order
    writers,     \* for each of them, the number of the message that saved it
    script,      \* SpecHist: the calls the driver cycles through
    env,         \* process.env: which credentials are set
    proc,        \* the process: "main", "getMe", "polling" or "exit1"
    received,    \* inbound messages delivered to the handler so far
    pc,          \* per handler: the await it is suspended at, or "idle"
    text,        \* per handler: msg.text
    request,     \* per handler: the messages of the model call in flight
    response,    \* per handler: what getResponse returned
    sent,        \* per handler: the text replies delivered to the chat this cycle
    typing,      \* per handler: typing indicators delivered this cycle
    modelCalls,  \* per handler: model calls made this cycle
    raised,      \* per handler: the first error raised this cycle, or "none"
    outcome,     \* per handler: how its last cycle ended, or "running"
    before,      \* per handler: the file when the cycle began
    serial,      \* per handler: the number of the message it is handling
    content,     \* SpecText: response.content of one model response
    returned,    \* SpecText: what getResponse returned for it, once it has
    given,       \* SpecRound: the history handed to saveHistory
    reloaded     \* SpecRound: what loadHistory did after it, in a list once it has

handlerVars == <<pc, text, request, response, sent, typing, modelCalls,
                 raised, outcome, before, serial>>
pureVars == <<content, returned, given, reloaded>>
vars == <<file, clock, appended, writers, script, env, proc, received, handlerVars,
          pureVars>>

\* returned before getResponse has returned.
Pending == <<"(pending)">>

HandlersIdle ==
    /\ pc = [h \in Handlers |-> "idle"]
    /\ text = [h \in Handlers |-> <<>>]
    /\ request = [h \in Handlers |-> <<>>]
    /\ response = [h \in Handlers |-> <<>>]
    /\ sent = [h \in Handlers |-> <<>>]
    /\ typing = [h \in Handlers |-> 0]
    /\ modelCalls = [h \in Handlers |-> 0]
    /\ raised = [h \in Handlers |-> "none"]
    /\ outcome = [h \in Handlers |-> "none"]
    /\ before = [h \in Handlers |-> NoFile]
    /\ serial = [h \in Handlers |-> 0]

(* --------------------- SpecHist: addToHistory alone ------------------- *)
\* What each role says in the driver's calls; the assistant's text holds the
\* characters JSON escapes.
ContentOf(role) == IF role = "user" THEN <<"h", "i">> ELSE <<"a", NL, QUOTE>>

\* One call of the script: its role argument and whether the clock has moved
\* on since the call before.
Calls == [role : Roles, tick : {0, 1}]

Scripts == UNION { [1..p -> Calls] : p \in 1..MaxPeriod }

Credentials == {"ANTHROPIC_API_KEY", "TELEGRAM_BOT_TOKEN"}

InitHist ==
    /\ file = NoFile
    /\ clock = 0
    /\ appended = <<>>
    /\ writers = <<>>
    /\ script \in Scripts
    /\ env = [c \in Credentials |-> TRUE]
    /\ proc = "polling"
    /\ received = 0
    /\ HandlersIdle
    /\ content = <<>>
    /\ returned = Pending
    /\ given = <<>>
    /\ reloaded = <<>>

\* One call addToHistory(role, content) on a working disk.
AppendCall ==
    /\ Len(appended) < MaxAppends
    /\ LET c == script[(Len(appended) % Len(script)) + 1]
           now == clock + c.tick
       IN  /\ clock' = now
           /\ file' = addToHistory(file, c.role, ContentOf(c.role), now, "ok").file
           /\ appended' = Append(appended,
                  [role |-> c.role, content |-> ContentOf(c.role),
                   timestamp |-> toISOString(now)])
    /\ UNCHANGED <<writers, script, env, proc, received, handlerVars, pureVars>>

NextHist == AppendCall

SpecHist == InitHist /\ [][NextHist]_vars

(* ------------------------ Spec: the whole program --------------------- *)
\* The texts the transport delivers (Telegram text messages are never empty).
Texts == { <<"h", "i">>,
           <<"/", "s", "t", "a", "r", "t">>,
           <<"/", "h", "e", "l", "p">> }

\* The content blocks a model response is made of.
Blocks == { [type |-> "text", text |-> <<"o", "k">>],
            [type |-> "text", text |-> <<"n", "o">>],
            [type |-> "thinking", thinking |-> <<"h", "m">>],
            [type |-> "tool_use", name |-> <<"f">>] }

\* The content arrays anthropic.messages.create can resolve with.
Contents == UNION { [1..n -> Blocks] : n \in 0..MaxBlocks }

\* How a file-system call of addToHistory or loadHistory can go.
IO == {"ok", "EIO", "EACCES"}
\* How the read of loadHistory can go.
ReadIO == {"ok", "EIO"}

\* The file earlier runs have left behind after n records (n at most
\* MAX_HISTORY): what saveHistory writes for exchanges of "hi" and "ok", all
\* stamped with clock reading 0.
PriorLog(n) ==
    IF n = 0 THEN NoFile
    ELSE saveHistory([i \in 1..n |->
            [role |-> IF i % 2 = 1 THEN "user" ELSE "assistant",
             content |-> IF i % 2 = 1 THEN <<"h", "i">> ELSE <<"o", "k">>,
             timestamp |-> toISOString(0)]])

\* The file an earlier process killed inside writeFileSync has left behind:
\* its last line is cut short.
CutShort(f) == SubSeq(f, 1, Len(f) - 1) \o <<Fragment>>

\* The lengths of the history this run can find at startup.
PriorLengths == {0, 18, MAX_HISTORY}

InitialFiles ==
    {PriorLog(n) : n \in PriorLengths} \cup {CutShort(PriorLog(18))}

Init ==
    /\ file \in InitialFiles
    /\ clock = 0
    /\ appended = <<>>
    /\ writers = <<>>
    /\ script = <<>>
    /\ env \in [Credentials -> BOOLEAN]
    /\ proc = "main"
    /\ received = 0
    /\ HandlersIdle
    /\ content = <<>>
    /\ returned = Pending
    /\ given = <<>>
    /\ reloaded = <<>>

\* A start that checks the API key only.
main_tokenUnchecked ==
    /\ proc = "main"
    /\ proc' = IF env["ANTHROPIC_API_KEY"] THEN "getMe" ELSE "exit1"
    /\ UNCHANGED <<file, clock, appended, writers, script, env, received,
                   handlerVars, pureVars>>

\* main() up to its first await: both credential checks, new Bot(token) and
\* the call of bot.api.getMe().
main ==
    /\ proc = "main"
    /\ proc' = IF env["ANTHROPIC_API_KEY"] /\ env["TELEGRAM_BOT_TOKEN"]
               THEN "getMe" ELSE "exit1"
    /\ UNCHANGED <<file, clock, appended, writers, script, env, received, handlerVars,
                   pureVars>>

\* connectTelegram() after getMe: the handler is registered and polling
\* starts; a rejected getMe rejects main(), whose catch exits with 1.
connectTelegram(ok) ==
    /\ proc = "getMe"
    /\ proc' = IF ok THEN "polling" ELSE "exit1"
    /\ UNCHANGED <<file, clock, appended, writers, script, env, received, handlerVars,
                   pureVars>>

\* The handler from its start to its first await: the guards, the command
\* filter and the call of sendChatAction. The clock has moved on since the
\* message before.
Receive(h, txt) ==
    /\ proc = "polling"
    /\ pc[h] = "idle"
    /\ received < MaxMessages
    /\ received' = received + 1
    /\ clock' = clock + 1
    /\ text' = [text EXCEPT ![h] = txt]
    /\ before' = [before EXCEPT ![h] = file]
    /\ serial' = [serial EXCEPT ![h] = received + 1]
    /\ request' = [request EXCEPT ![h] = <<>>]
    /\ response' = [response EXCEPT ![h] = <<>>]
    /\ sent' = [sent EXCEPT ![h] = <<>>]
    /\ typing' = [typing EXCEPT ![h] = 0]
    /\ modelCalls' = [modelCalls EXCEPT ![h] = 0]
    /\ raised' = [raised EXCEPT ![h] = "none"]
    /\ IF txt = <<>> \/ Skipped(txt)
       THEN /\ pc' = pc
            /\ outcome' = [outcome EXCEPT ![h] = "ignored"]
       ELSE /\ pc' = [pc EXCEPT ![h] = "typing"]
            /\ outcome' = [outcome EXCEPT ![h] = "running"]
    /\ UNCHANGED <<file, appended, writers, script, env, proc, pureVars>>

\* An exception leaves the handler: no bot.catch is installed, so grammY's
\* default error handler stops the bot and rethrows, bot.start() rejects, and
\* the catch of main() exits with 1.
Escapes(h, error) ==
    /\ pc' = [pc EXCEPT ![h] = "idle"]
    /\ outcome' = [outcome EXCEPT ![h] = "threw"]
    /\ raised' = [raised EXCEPT ![h] = IF raised[h] = "none" THEN error ELSE raised[h]]
    /\ proc' = "exit1"

\* The catch block up to its await: console.error and the call of
\* ctx.reply with the apology.
Catches(h, error) ==
    /\ pc' = [pc EXCEPT ![h] = "apology"]
    /\ raised' = [raised EXCEPT ![h] = error]
    /\ UNCHANGED <<proc, outcome>>

\* sendChatAction settles; on success getResponse runs to its await:
\* loadHistory, the messages, the call of anthropic.messages.create.
sendChatAction(h, ok, io) ==
    /\ pc[h] = "typing"
    /\ IF ~ok
       THEN /\ Escapes(h, "sendChatAction")
            /\ UNCHANGED <<typing, request, modelCalls>>
       ELSE /\ typing' = [typing EXCEPT ![h] = typing[h] + 1]
            /\ LET history == loadHistory(file, io) IN
               IF history.threw
               THEN /\ Catches(h, IF io = "EIO" /\ file # NoFile
                                  THEN "EIO" ELSE "SyntaxError")
                    /\ UNCHANGED <<request, modelCalls>>
               ELSE /\ request' = [request EXCEPT ![h] = Messages(history.value, text[h])]
                    /\ modelCalls' = [modelCalls EXCEPT ![h] = modelCalls[h] + 1]
                    /\ pc' = [pc EXCEPT ![h] = "model"]
                    /\ UNCHANGED <<proc, outcome, raised>>
    /\ UNCHANGED <<file, clock, appended, writers, script, env, received, text,
                   response, sent, before, serial, pureVars>>

\* A handler that saves both records as soon as the model has answered,
\* before it sends the reply.
getResponse_recordsFirst(h, ok, blocks) ==
    /\ pc[h] = "model"
    /\ request' = [request EXCEPT ![h] = <<>>]
    /\ IF ~ok
       THEN /\ Catches(h, "model")
            /\ UNCHANGED <<response, file, appended, writers>>
       ELSE /\ response' = [response EXCEPT ![h] = ExtractText(blocks)]
            /\ file' = addToHistory(addToHistory(file, "user", text[h], clock, "ok").file,
                                    "assistant", ExtractText(blocks), clock, "ok").file
            /\ appended' = appended \o
                   <<[role |-> "user", content |-> text[h],
                      timestamp |-> toISOString(clock)],
                     [role |-> "assistant", content |-> ExtractText(blocks),
                      timestamp |-> toISOString(clock)]>>
            /\ writers' = writers \o <<serial[h], serial[h]>>
            /\ pc' = [pc EXCEPT ![h] = "reply"]
            /\ UNCHANGED <<proc, outcome, raised>>
    /\ UNCHANGED <<clock, script, env, received, text,
                   sent, typing, modelCalls, before, serial, pureVars>>

\* anthropic.messages.create settles; on success getResponse returns the
\* extracted text and the handler calls ctx.reply with it.
getResponse(h, ok, blocks) ==
    /\ pc[h] = "model"
    /\ request' = [request EXCEPT ![h] = <<>>]
    /\ IF ~ok
       THEN /\ Catches(h, "model")
            /\ UNCHANGED response
       ELSE /\ response' = [response EXCEPT ![h] = ExtractText(blocks)]
            /\ pc' = [pc EXCEPT ![h] = "reply"]
            /\ UNCHANGED <<proc, outcome, raised>>
    /\ UNCHANGED <<file, clock, appended, writers, script, env, received, text,
                   sent, typing, modelCalls, before, serial, pureVars>>

\* A reply whose appends start from the history read when the cycle began.
reply_staleLoad(h, ok, io1) ==
    /\ pc[h] = "reply"
    /\ IF ~ok
       THEN /\ Catches(h, "reply")
            /\ UNCHANGED <<file, appended, writers, sent>>
       ELSE LET u == addToHistory(before[h], "user", text[h], clock, io1)
                urec == [role |-> "user", content |-> text[h],
                         timestamp |-> toISOString(clock)]
                arec == [role |-> "assistant", content |-> response[h],
                         timestamp |-> toISOString(clock)]
            IN  /\ sent' = [sent EXCEPT ![h] = Append(sent[h], Labelled(response[h]))]
                /\ IF u.threw
                   THEN /\ Catches(h, "addToHistory user")
                        /\ UNCHANGED <<file, appended, writers>>
                   ELSE \E io2 \in IO :
                        LET a == addToHistory(u.file, "assistant", response[h],
                                              clock, io2)
                        IN  IF a.threw
                            THEN /\ Catches(h, "addToHistory assistant")
                                 /\ file' = u.file
                                 /\ appended' = Append(appended, urec)
                                 /\ writers' = Append(writers, serial[h])
                            ELSE /\ file' = a.file
                                 /\ appended' = appended \o <<urec, arec>>
                                 /\ writers' = writers \o <<serial[h], serial[h]>>
                                 /\ pc' = [pc EXCEPT ![h] = "idle"]
                                 /\ outcome' = [outcome EXCEPT ![h] = "done"]
                                 /\ UNCHANGED <<proc, raised>>
    /\ UNCHANGED <<clock, script, env, received, text, request, response,
                   typing, modelCalls, before, serial, pureVars>>

\* A reply that saves the assistant record before the user record.
reply_assistantFirst(h, ok, io1) ==
    /\ pc[h] = "reply"
    /\ IF ~ok
       THEN /\ Catches(h, "reply")
            /\ UNCHANGED <<file, appended, writers, sent>>
       ELSE LET u == addToHistory(file, "assistant", response[h], clock, io1)
                urec == [role |-> "user", content |-> text[h],
                         timestamp |-> toISOString(clock)]
                arec == [role |-> "assistant", content |-> response[h],
                         timestamp |-> toISOString(clock)]
            IN  /\ sent' = [sent EXCEPT ![h] = Append(sent[h], Labelled(response[h]))]
                /\ IF u.threw
                   THEN /\ Catches(h, "addToHistory user")
                        /\ UNCHANGED <<file, appended, writers>>
                   ELSE \E io2 \in IO :
                        LET a == addToHistory(u.file, "user", text[h], clock, io2)
                        IN  IF a.threw
                            THEN /\ Catches(h, "addToHistory assistant")
                                 /\ file' = u.file
                                 /\ appended' = Append(appended, arec)
                                 /\ writers' = Append(writers, serial[h])
                            ELSE /\ file' = a.file
                                 /\ appended' = appended \o <<arec, urec>>
                                 /\ writers' = writers \o <<serial[h], serial[h]>>
                                 /\ pc' = [pc EXCEPT ![h] = "idle"]
                                 /\ outcome' = [outcome EXCEPT ![h] = "done"]
                                 /\ UNCHANGED <<proc, raised>>
    /\ UNCHANGED <<clock, script, env, received, text, request, response,
                   typing, modelCalls, before, serial, pureVars>>

\* A reply that saves both records also when the send was rejected.
reply_savesUnsent(h, ok, io1) ==
    /\ pc[h] = "reply"
    /\ IF ~ok
       THEN /\ Catches(h, "reply")
            /\ file' = addToHistory(addToHistory(file, "user", text[h], clock, "ok").file,
                                    "assistant", response[h], clock, "ok").file
            /\ appended' = appended \o
                   <<[role |-> "user", content |-> text[h],
                      timestamp |-> toISOString(clock)],
                     [role |-> "assistant", content |-> response[h],
                      timestamp |-> toISOString(clock)]>>
            /\ writers' = writers \o <<serial[h], serial[h]>>
            /\ UNCHANGED sent
       ELSE LET u == addToHistory(file, "user", text[h], clock, io1)
                urec == [role |-> "user", content |-> text[h],
                         timestamp |-> toISOString(clock)]
                arec == [role |-> "assistant", content |-> response[h],
                         timestamp |-> toISOString(clock)]
            IN  /\ sent' = [sent EXCEPT ![h] = Append(sent[h], Labelled(response[h]))]
                /\ IF u.threw
                   THEN /\ Catches(h, "addToHistory user")
                        /\ UNCHANGED <<file, appended, writers>>
                   ELSE \E io2 \in IO :
                        LET a == addToHistory(u.file, "assistant", response[h],
                                              clock, io2)
                        IN  IF a.threw
                            THEN /\ Catches(h, "addToHistory assistant")
                                 /\ file' = u.file
                                 /\ appended' = Append(appended, urec)
                                 /\ writers' = Append(writers, serial[h])
                            ELSE /\ file' = a.file
                                 /\ appended' = appended \o <<urec, arec>>
                                 /\ writers' = writers \o <<serial[h], serial[h]>>
                                 /\ pc' = [pc EXCEPT ![h] = "idle"]
                                 /\ outcome' = [outcome EXCEPT ![h] = "done"]
                                 /\ UNCHANGED <<proc, raised>>
    /\ UNCHANGED <<clock, script, env, received, text, request, response,
                   typing, modelCalls, before, serial, pureVars>>

\* ctx.reply with the response settles; on success both addToHistory calls
\* run back to back, within one reading of the clock.
reply(h, ok, io1) ==
    /\ pc[h] = "reply"
    /\ IF ~ok
       THEN /\ Catches(h, "reply")
            /\ UNCHANGED <<file, appended, writers, sent>>
       ELSE LET u == addToHistory(file, "user", text[h], clock, io1)
                urec == [role |-> "user", content |-> text[h],
                         timestamp |-> toISOString(clock)]
                arec == [role |-> "assistant", content |-> response[h],
                         timestamp |-> toISOString(clock)]
            IN  /\ sent' = [sent EXCEPT ![h] = Append(sent[h], Labelled(response[h]))]
                /\ IF u.threw
                   THEN /\ Catches(h, "addToHistory user")
                        /\ UNCHANGED <<file, appended, writers>>
                   ELSE \E io2 \in IO :
                        LET a == addToHistory(u.file, "assistant", response[h],
                                              clock, io2)
                        IN  IF a.threw
                            THEN /\ Catches(h, "addToHistory assistant")
                                 /\ file' = u.file
                                 /\ appended' = Append(appended, urec)
                                 /\ writers' = Append(writers, serial[h])
                            ELSE /\ file' = a.file
                                 /\ appended' = appended \o <<urec, arec>>
                                 /\ writers' = writers \o <<serial[h], serial[h]>>
                                 /\ pc' = [pc EXCEPT ![h] = "idle"]
                                 /\ outcome' = [outcome EXCEPT ![h] = "done"]
                                 /\ UNCHANGED <<proc, raised>>
    /\ UNCHANGED <<clock, script, env, received, text, request, response,
                   typing, modelCalls, before, serial, pureVars>>

\* ctx.reply with the apology settles: the handler returns, or the rejection
\* leaves the catch block and the handler.
apology(h, ok) ==
    /\ pc[h] = "apology"
    /\ IF ok
       THEN /\ sent' = [sent EXCEPT ![h] = Append(sent[h], ApologyReply)]
            /\ pc' = [pc EXCEPT ![h] = "idle"]
            /\ outcome' = [outcome EXCEPT ![h] = "caught"]
            /\ UNCHANGED <<proc, raised>>
       ELSE /\ Escapes(h, "apology")
            /\ UNCHANGED sent
    /\ UNCHANGED <<file, clock, appended, writers, script, env, received, text, request,
                   response, typing, modelCalls, before, serial, pureVars>>

\* bot.start() handles one update at a time: the next handler starts when
\* the one before has settled.
OneAtATime == \A k \in Handlers : pc[k] = "idle"

Next ==
    \/ main
    \/ \E ok \in BOOLEAN : connectTelegram(ok)
    \/ \E txt \in Texts : OneAtATime /\ Receive(1, txt)
    \/ \E h \in Handlers, ok \in BOOLEAN, io \in ReadIO : sendChatAction(h, ok, io)
    \/ \E h \in Handlers, ok \in BOOLEAN, blocks \in Contents :
          getResponse(h, ok, blocks)
    \/ \E h \in Handlers, ok \in BOOLEAN, io1 \in IO : reply(h, ok, io1)
    \/ \E h \in Handlers, ok \in BOOLEAN : apology(h, ok)

Spec == Init /\ [][Next]_vars

(* ----------------- SpecReliable: a disk that works -------------------- *)
\* The run starts with both credentials set, on a history earlier exchanges
\* have left.
InitReliable ==
    /\ Init
    /\ \A c \in Credentials : env[c]
    /\ file \in {PriorLog(n) : n \in PriorLengths}

\* No file-system call of loadHistory or saveHistory fails in the step.
Reliable ==
    \A h \in Handlers :
        raised'[h] \notin {"EIO", "addToHistory user", "addToHistory assistant"}

NextReliable ==
    \/ main
    \/ \E ok \in BOOLEAN : connectTelegram(ok)
    \/ \E txt \in Texts : OneAtATime /\ Receive(1, txt)
    \/ \E h \in Handlers, ok \in BOOLEAN, io \in ReadIO :
          sendChatAction(h, ok, io) /\ Reliable
    \/ \E h \in Handlers, ok \in BOOLEAN, blocks \in Contents :
          getResponse(h, ok, blocks)
    \/ \E h \in Handlers, ok \in BOOLEAN, io1 \in IO :
          reply(h, ok, io1) /\ Reliable
    \/ \E h \in Handlers, ok \in BOOLEAN : apology(h, ok)

SpecReliable == InitReliable /\ [][NextReliable]_vars

(* ------------- SpecOverlap: handling cycles that overlap -------------- *)
\* A transport that hands the next update to the handler while handlers are
\* suspended at an await: the update goes to the first idle invocation.
FirstIdle(h) == \A k \in Handlers : k < h => pc[k] # "idle"

\* The run starts with both credentials set, on no history file or on a
\* one of a single exchange.
InitOverlap ==
    /\ file \in {PriorLog(0), PriorLog(2)}
    /\ clock = 0
    /\ appended = <<>>
    /\ writers = <<>>
    /\ script = <<>>
    /\ env = [c \in Credentials |-> TRUE]
    /\ proc = "main"
    /\ received = 0
    /\ HandlersIdle
    /\ content = <<>>
    /\ returned = Pending
    /\ given = <<>>
    /\ reloaded = <<>>

\* Its inbound texts: those the command filter lets through.
OverlapTexts == { t \in Texts : ~Skipped(t) }

\* The content arrays of its model responses: one text block.
OverlapContents == { c \in Contents : Len(c) = 1 /\ c[1].type = "text" }

NextOverlap ==
    \/ main
    \/ \E ok \in BOOLEAN : connectTelegram(ok)
    \/ \E h \in Handlers, txt \in OverlapTexts : FirstIdle(h) /\ Receive(h, txt)
    \/ \E h \in Handlers, ok \in BOOLEAN, io \in {"ok"} : sendChatAction(h, ok, io)
    \/ \E h \in Handlers, ok \in BOOLEAN, blocks \in OverlapContents :
          getResponse(h, ok, blocks)
    \/ \E h \in Handlers, ok \in BOOLEAN, io1 \in IO : reply(h, ok, io1)
    \/ \E h \in Handlers, ok \in BOOLEAN : apology(h, ok)

SpecOverlap == InitOverlap /\ [][NextOverlap]_vars

(* ------------------ SpecText: the text getResponse returns ------------ *)
InitText ==
    /\ file = NoFile
    /\ clock = 0
    /\ appended = <<>>
    /\ writers = <<>>
    /\ script = <<>>
    /\ env = [c \in Credentials |-> TRUE]
    /\ proc = "polling"
    /\ received = 0
    /\ HandlersIdle
    /\ content \in Contents
    /\ returned = Pending
    /\ given = <<>>
    /\ reloaded = <<>>

\* The last two statements of getResponse on one model response.
Return ==
    /\ returned = Pending
    /\ returned' = ExtractText(content)
    /\ UNCHANGED <<file, clock, appended, writers, script, env, proc, received,
                   handlerVars, content, given, reloaded>>

NextText == Return

SpecText == InitText /\ [][NextText]_vars

(* ------------- SpecRound: saveHistory, then loadHistory --------------- *)
\* Contents of the records handed to saveHistory: empty, plain, and holding
\* each character JSON escapes, a raw newline first, last and in between.
RoundContents ==
    { <<>>, <<"h", "i">>, <<NL>>, <<"a", NL, "b">>, <<NL, NL>>, <<QUOTE>>,
      <<BACKSLASH, "n">>, <<"{", QUOTE, BACKSLASH>> }

\* Their timestamps: one toISOString gives, and one no clock gives.
RoundTimestamps == { toISOString(7), <<"Z", NL>> }

RoundMessages ==
    [role : Roles, content : RoundContents, timestamp : RoundTimestamps]

InitRound ==
    /\ file = NoFile
    /\ clock = 0
    /\ appended = <<>>
    /\ writers = <<>>
    /\ script = <<>>
    /\ env = [c \in Credentials |-> TRUE]
    /\ proc = "polling"
    /\ received = 0
    /\ HandlersIdle
    /\ content = <<>>
    /\ returned = Pending
    /\ given \in UNION { [1..n -> RoundMessages] : n \in 0..MaxRecords }
    /\ reloaded = <<>>

\* saveHistory(given) on a working disk.
Save ==
    /\ file = NoFile
    /\ file' = saveHistory(given)
    /\ UNCHANGED <<clock, appended, writers, script, env, proc, received,
                   handlerVars, pureVars>>

\* loadHistory() after it.
Load ==
    /\ file # NoFile
    /\ reloaded = <<>>
    /\ reloaded' = <<loadHistory(file, "ok")>>
    /\ UNCHANGED <<file, clock, appended, writers, script, env, proc, received,
                   handlerVars, content, returned, given>>

NextRound == Save \/ Load

SpecRound == InitRound /\ [][NextRound]_vars

(* ------------------------------ claims -------------------------------- *)
\* "JARVIS: Sorry, something went wrong."
TheApology ==
    <<"J", "A", "R", "V", "I", "S", ":", " ", "S", "o", "r", "r",
      "y", ",", " ", "s", "o", "m", "e", "t", "h", "i", "n", "g",
      " ", "w", "e", "n", "t", " ", "w", "r", "o", "n", "g", ".">>

\* "Sorry, I could not generate a response."
TheFallback ==
    <<"S", "o", "r", "r", "y", ",", " ", "I", " ", "c", "o", "u",
      "l", "d", " ", "n", "o", "t", " ", "g", "e", "n", "e", "r",
      "a", "t", "e", " ", "a", " ", "r", "e", "s", "p", "o", "n",
      "s", "e", ".">>

\* The history read back from the file (the disk working).
Persisted == loadHistory(file, "ok").value

\* The last n elements of s.
LastN(s, n) == SubSeq(s, Len(s) - n + 1, Len(s))

\* C1: after each of N addToHistory calls from an empty log the persisted
\* history has exactly min(N, MAX_HISTORY) records, so never more than
\* MAX_HISTORY.
C1_BoundedLength ==
    LET loaded == loadHistory(file, "ok") IN
    /\ ~loaded.threw
    /\ Len(loaded.value) = Min(Len(appended), MAX_HISTORY)
    /\ Len(loaded.value) <= MAX_HISTORY

C1_Witness == Len(appended) > MAX_HISTORY /\ Len(Persisted) = MAX_HISTORY

\* C2: the persisted history read back is exactly the last min(N, MAX_HISTORY)
\* of all records ever appended, in call order, equal records kept apart and
\* every retained record unchanged.
C2_SuffixInOrder ==
    Persisted = LastN(appended, Min(Len(appended), MAX_HISTORY))

C2_Witness ==
    /\ Len(appended) > MAX_HISTORY
    /\ \E i \in 1..(Len(Persisted) - 1) : Persisted[i] = Persisted[i + 1]
    /\ \E i \in 1..(Len(Persisted) - 1) : Persisted[i] # Persisted[i + 1]

\* C3: with H records persisted and user message m, the messages passed to
\* the model are the last min(H, 20) records in stored order, each reduced to
\* role and content, followed by the one entry {user, m}; for H = 0 they are
\* exactly [{user, m}], and no further copy of m is among them.
C3_ContextWindow ==
    \A h \in Handlers : pc[h] = "model" =>
        LET prior == Persisted
            H == Len(prior)
            k == Min(H, 20)
        IN  /\ Len(request[h]) = k + 1
            /\ \A i \in 1..k :
                  request[h][i] = [role |-> prior[H - k + i].role,
                                   content |-> prior[H - k + i].content]
            /\ request[h][k + 1] = [role |-> "user", content |-> text[h]]
            /\ H = 0 => request[h] = <<[role |-> "user", content |-> text[h]]>>

C3_Witness ==
    \E h \in Handlers :
        pc[h] = "model" /\ Len(Persisted) > 20 /\ Len(request[h]) = 21

\* C4: when the model call fails, the persisted history after the cycle is
\* the history before it, and the reply delivered to the chat is the apology
\* "JARVIS: Sorry, something went wrong." and nothing else.
C4_ModelErrorLeavesHistory ==
    \A h \in Handlers : raised[h] = "model" =>
        /\ file = before[h]
        /\ modelCalls[h] = 1
        /\ outcome[h] = "caught" => sent[h] = <<TheApology>>
        /\ outcome[h] # "caught" => sent[h] = <<>>

C4_Witness ==
    \E h \in Handlers :
        /\ raised[h] = "model" /\ outcome[h] = "caught"
        /\ Len(Persisted) > 0

\* C5: whatever fails during a handling cycle, a history read or write
\* included, the exchange leaves no trace in the persisted history: neither
\* record is written, and never the user record alone.
C5_FailedExchangeLeavesNoTrace ==
    \A h \in Handlers : raised[h] # "none" => file = before[h]

\* C6: every inbound message that is not an ignored command gets exactly one
\* text reply, the model reply or the apology, and never both (stated for the
\* cycles in which no send to the chat fails).
C6_ExactlyOneReply ==
    \A h \in Handlers :
        /\ Len(sent[h]) <= 1
        /\ (outcome[h] \in {"done", "caught"} /\ raised[h] # "reply")
              => Len(sent[h]) = 1

\* C7: no failure raised while handling a message (the typing indicator, the
\* model call, the reply, the apology, a history read or write) leaves the
\* handler, and the process goes on polling.
C7_ErrorsContained ==
    /\ \A h \in Handlers : outcome[h] # "threw"
    /\ received > 0 => proc = "polling"

\* C8 as claimed: a parse error of the log leaves the handling cycle
\* uncaught and is not turned into the apology reply.
C8_ParseErrorEscapes ==
    \A h \in Handlers : raised[h] = "SyntaxError" =>
        /\ pc[h] # "apology"
        /\ sent[h] = <<>>
        /\ outcome[h] \in {"running", "threw"}

\* The file holds a line that is no complete JSON text.
Unparsable(f) == \E i \in 1..Len(f) : f[i] = Fragment

\* C8 as amended: when a line of the log cannot be parsed, the load of the
\* handling cycle fails and the handler's catch block takes the error: no
\* model call is made, the log stays as it was (the line is not skipped) and
\* the apology is what the handler sends.
C8_ParseErrorCaught ==
    \A h \in Handlers :
        /\ raised[h] = "SyntaxError" => Unparsable(before[h])
        /\ (Unparsable(before[h]) /\ typing[h] > 0) =>
              /\ raised[h] \in {"SyntaxError", "EIO"}
              /\ modelCalls[h] = 0
              /\ file = before[h]
              /\ \/ pc[h] = "apology" /\ outcome[h] = "running" /\ sent[h] = <<>>
                 \/ pc[h] = "idle" /\ outcome[h] = "caught"
                       /\ sent[h] = <<TheApology>>
                 \/ pc[h] = "idle" /\ outcome[h] = "threw" /\ sent[h] = <<>>

C8_Witness ==
    \E h \in Handlers :
        raised[h] = "SyntaxError" /\ outcome[h] = "caught" /\ Unparsable(file)

\* Role and content of each record of a history.
Turns(history) ==
    [i \in 1..Len(history) |->
        [role |-> history[i].role, content |-> history[i].content]]

\* C9: a text that begins with '/' and is not '/start' is ignored (no typing
\* indicator, no model call, no reply, history unchanged); '/start' and every
\* text not beginning with '/' go through the handling cycle, which on
\* success is one model call, one reply and the two history appends.
C9_CommandFilter ==
    \A h \in Handlers : outcome[h] # "none" =>
        LET command == /\ Len(text[h]) >= 1
                       /\ text[h][1] = "/"
                       /\ text[h] # <<"/", "s", "t", "a", "r", "t">>
        IN  /\ command <=> outcome[h] = "ignored"
            /\ outcome[h] = "ignored" =>
                  /\ pc[h] = "idle"
                  /\ typing[h] = 0
                  /\ modelCalls[h] = 0
                  /\ sent[h] = <<>>
                  /\ file = before[h]
            /\ outcome[h] = "done" =>
                  /\ typing[h] = 1
                  /\ modelCalls[h] = 1
                  /\ Len(sent[h]) = 1
                  /\ LET was == Turns(loadHistory(before[h], "ok").value)
                         all == was \o <<[role |-> "user", content |-> text[h]],
                                         [role |-> "assistant",
                                          content |-> response[h]]>>
                     IN  Turns(Persisted) = LastN(all, Min(Len(all), MAX_HISTORY))

C9_Witness ==
    \E h \in Handlers :
        /\ outcome[h] = "ignored"
        /\ text[h] = <<"/", "h", "e", "l", "p">>
        /\ Len(appended) = 2
        /\ appended[1].content = <<"/", "s", "t", "a", "r", "t">>

\* C10: getResponse returns the text of the first content block of type text
\* in response order, and exactly 'Sorry, I could not generate a response.'
\* when the response holds no such block.
C10_FirstTextOrFallback ==
    returned # Pending =>
        /\ (\A i \in 1..Len(content) : content[i].type # "text")
              => returned = TheFallback
        /\ \A i \in 1..Len(content) :
              (/\ content[i].type = "text"
               /\ \A j \in 1..(i - 1) : content[j].type # "text")
              => returned = content[i].text

C10_Witness ==
    /\ returned # Pending
    /\ Len(content) = 3
    /\ content[1].type # "text"
    /\ content[2].type = "text"
    /\ content[3].type = "text"
    /\ content[2] # content[3]

\* C11: whatever history saveHistory is given (empty, with empty contents,
\* with contents holding newlines), the loadHistory that follows returns it,
\* record by record, equal in role, content and timestamp.
C11_RoundTrip ==
    reloaded # <<>> =>
        /\ ~reloaded[1].threw
        /\ Len(reloaded[1].value) = Len(given)
        /\ \A i \in 1..Len(given) :
              /\ reloaded[1].value[i].role = given[i].role
              /\ reloaded[1].value[i].content = given[i].content
              /\ reloaded[1].value[i].timestamp = given[i].timestamp

\* A history with an empty content and a content holding a newline has been
\* saved and loaded again.
C11_Witness ==
    /\ reloaded # <<>>
    /\ Len(given) = 2
    /\ given[1].content = <<>>
    /\ \E i \in 1..Len(given[2].content) : given[2].content[i] = NL

\* C12: when either credential is missing at startup the process exits with
\* code 1 before the message handler is registered: it never polls, no
\* message is handled, no model call is made and nothing is saved to the
\* history.
C12_MissingCredentialExits ==
    (\E c \in Credentials : ~env[c]) =>
        /\ proc \in {"main", "exit1"}
        /\ received = 0
        /\ appended = <<>>
        /\ \A h \in Handlers :
              /\ pc[h] = "idle"
              /\ modelCalls[h] = 0
              /\ sent[h] = <<>>
              /\ outcome[h] = "none"

\* The process has exited with code 1 with the bot token missing and the API
\* key set.
C12_Witness ==
    /\ env["ANTHROPIC_API_KEY"]
    /\ ~env["TELEGRAM_BOT_TOKEN"]
    /\ proc = "exit1"

\* C13 as stated: when two handling cycles overlap and both save their
\* records, a save overwrites the other's and a record is missing from the
\* persisted history.
C13_LostUpdate ==
    ( /\ outcome[1] = "done"
      /\ outcome[2] = "done"
      /\ serial[1] # serial[2]
      /\ before[1] = before[2] )
    => \/ Len(Persisted) < Len(appended)
       \/ LastN(Persisted, Len(appended)) # appended

\* C13: addToHistory loads, pushes and saves without suspending, so also
\* when handling cycles overlap no save overwrites another: the persisted
\* history ends with every record saved so far, in the order of the calls.
C13_NoLostUpdate ==
    LET persisted == Persisted IN
    /\ Len(persisted) >= Len(appended)
    /\ LastN(persisted, Len(appended)) = appended

\* Two cycles overlapped and both saved their records, the later message
\* first.
C13_Witness ==
    /\ outcome[1] = "done"
    /\ outcome[2] = "done"
    /\ before[1] = before[2]
    /\ writers = <<2, 2, 1, 1>>

\* C17: in every interleaving of overlapping handling cycles the two records
\* of one exchange are saved next to each other, user record first, with no
\* record of another exchange between them, and every record a cycle saved
\* is still in the persisted history, in its place, while it is not the
\* oldest beyond MAX_HISTORY.
C17_ExchangeStaysTogether ==
    /\ \A i, j \in 1..Len(appended) :
          (i < j /\ writers[i] = writers[j]) =>
              /\ j = i + 1
              /\ appended[i].role = "user"
              /\ appended[j].role = "assistant"
    /\ LET persisted == Persisted IN
       \A i \in 1..Len(appended) :
          LET p == Len(persisted) - Len(appended) + i IN
          p >= 1 /\ persisted[p] = appended[i]
    /\ \A h \in Handlers :
          outcome[h] = "done" =>
              \E i \in 1..(Len(appended) - 1) :
                  /\ writers[i] = serial[h]
                  /\ writers[i + 1] = serial[h]
                  /\ appended[i].content = text[h]
                  /\ appended[i + 1].content = response[h]

\* Two cycles were under way at once, both replied, and the first saved both
\* its records after the second had saved its user record only.
C17_Witness ==
    /\ serial[1] = 1
    /\ serial[2] = 2
    /\ before[1] = before[2]
    /\ outcome[1] = "done"
    /\ raised[2] = "addToHistory assistant"
    /\ writers = <<2, 1, 1>>

\* C14: a handling cycle loads the history and calls the model, then
\* delivers the reply, then saves the user record, then the assistant
\* record: records of an exchange are in the history only if its reply,
\* built from the model's response, has been delivered, and an assistant
\* record comes right after the user record of its exchange.
C14_ReplyBeforeRecords ==
    /\ \A h \in Handlers :
          (\E i \in 1..Len(writers) : writers[i] = serial[h]) =>
              /\ modelCalls[h] = 1
              /\ sent[h] # <<>>
              /\ sent[h][1] = Labelled(response[h])
    /\ \A i \in 1..Len(appended) :
          appended[i].role = "assistant" =>
              /\ i > 1
              /\ appended[i - 1].role = "user"
              /\ writers[i - 1] = writers[i]
    /\ LET persisted == Persisted IN
       \A i \in 1..Len(appended) :
          LET p == Len(persisted) - Len(appended) + i IN
          p >= 1 /\ persisted[p].role = appended[i].role

\* A cycle has ended with its reply delivered and both its records saved.
C14_Witness ==
    /\ outcome[1] = "done"
    /\ sent[1] = <<Labelled(response[1])>>
    /\ Len(Persisted) >= 2
    /\ LastN(Persisted, 2)[1].content = text[1]
    /\ LastN(Persisted, 2)[2].content = response[1]
    /\ LastN(writers, 2) = <<serial[1], serial[1]>>

\* C15 as stated: both messages are written to the history before the reply
\* is delivered, so while the reply is being sent the user record and the
\* assistant record of the exchange are the last two of the persisted
\* history.
C15_RecordsBeforeReply ==
    \A h \in Handlers :
        pc[h] = "reply" =>
            LET persisted == Persisted IN
            /\ Len(persisted) >= 2
            /\ LastN(persisted, 2) =
                   <<[role |-> "user", content |-> text[h],
                      timestamp |-> toISOString(clock)],
                     [role |-> "assistant", content |-> response[h],
                      timestamp |-> toISOString(clock)]>>

\* C15: the reply is sent first: while it is being sent the history is as it
\* was when the cycle began, with no record of this exchange in it.
C15_ReplyBeforeRecords ==
    \A h \in Handlers :
        pc[h] = "reply" =>
            /\ file = before[h]
            /\ \A i \in 1..Len(writers) : writers[i] # serial[h]

\* The model has answered and the reply is being sent.
C15_Witness ==
    /\ pc[1] = "reply"
    /\ modelCalls[1] = 1
    /\ response[1] # <<>>
    /\ sent[1] = <<>>

\* history is user, assistant, user, assistant, ... from its first record.
Alternates(history) ==
    \A i \in 1..Len(history) :
        history[i].role = IF i % 2 = 1 THEN "user" ELSE "assistant"

\* C16: with cycles one at a time and a working disk, after every completed
\* cycle (success, model failure, ignored command) the persisted history
\* has an even number of records and alternates user, assistant from a user
\* record, also once it is trimmed to MAX_HISTORY; so the messages of every
\* model call begin with a user message, alternate, and end with the new
\* user message.
C16_Alternation ==
    /\ (\A h \in Handlers : pc[h] = "idle") =>
          LET persisted == Persisted IN
          /\ Len(persisted) % 2 = 0
          /\ Len(persisted) <= MAX_HISTORY
          /\ Alternates(persisted)
    /\ \A h \in Handlers :
          pc[h] = "model" =>
              /\ Len(request[h]) % 2 = 1
              /\ Alternates(request[h])
              /\ request[h][Len(request[h])] =
                     [role |-> "user", content |-> text[h]]

\* A cycle has ended that saved its two records onto a full history, which
\* was trimmed.
C16_Witness ==
    /\ outcome[1] = "done"
    /\ Len(appended) >= 2
    /\ Len(loadHistory(before[1], "ok").value) = MAX_HISTORY
    /\ Len(Persisted) = MAX_HISTORY
    /\ Persisted[MAX_HISTORY].content = response[1]

============================================================================
